---- MODULE Spec2Model ----
(***************************************************************************)
(* A model of src/lib/slack_batch_api.py: the SlackBatchAPI client          *)
(* (batching, caching, bounded fan-out, metrics).                           *)
(*                                                                          *)
(* Strings are modelled as sequences of tokens.  The two cache-key          *)
(* namespaces 'conversation_members:' and 'user_info:' are tokens of their  *)
(* own, so that building a key (concatenation) and stripping it again       *)
(* (str.replace, which removes every occurrence) are computed as the code   *)
(* computes them.  Dictionaries are functions; a dictionary's key set is    *)
(* the function's DOMAIN.  time.time() is the integer variable now.         *)
(***************************************************************************)
EXTENDS Integers, Sequences, FiniteSets, TLC

\* ------------------------------------------------------------------------
\* Bounds of the model
\* ------------------------------------------------------------------------
MaxTime == 3
MaxLen == 3

\* how many of the oldest calls in flight of a batch may return next
MaxReorder == 2

\* the largest max_retries a client is constructed with
MaxRetries == 3

\* ------------------------------------------------------------------------
\* Program constants
\* ------------------------------------------------------------------------
SLACK_MAX_BATCH == 50
OUTER_LIMIT == 5
INNER_LIMIT_MEMBERS == 10
INNER_LIMIT_USERS == 20
DEFAULT_MAX_RETRIES == 3
DEFAULT_RETRY_DELAY == 1

\* ------------------------------------------------------------------------
\* Generic helpers for Python values
\* ------------------------------------------------------------------------
\* Every Python value is a sequence of strings that starts with a tag:
\* None, a list of strings, a user object, a JSON text, a text that is no JSON.
None == <<"None">>

PyList(items) == <<"list">> \o items

PyUser(id) == <<"user">> \o id

EmptyDict == [k \in {} |-> None]

\* d[k] = v
DictPut(d, k, v) == [x \in (DOMAIN d) \cup {k} |-> IF x = k THEN v ELSE d[x]]

\* {**a, **b}: the entries of b win
DictMerge(a, b) == [x \in (DOMAIN a) \cup (DOMAIN b) |-> IF x \in DOMAIN b THEN b[x] ELSE a[x]]

\* for k in ks: d.pop(k, None)
DictDrop(d, ks) == [x \in (DOMAIN d) \ ks |-> d[x]]

\* d.get(k)
DictGet(d, k) == IF k \in DOMAIN d THEN d[k] ELSE None

SeqToSet(s) == {s[i] : i \in 1..Len(s)}

Min(a, b) == IF a < b THEN a ELSE b

Max(a, b) == IF a > b THEN a ELSE b

\* Python truthiness of the values that occur here: None and [] are falsy
Truthy(v) == v # None /\ v # PyList(<<>>)

\* every ordering of a finite set, as sequences without repetition
Orderings(S) == {s \in [1..Cardinality(S) -> S] : SeqToSet(s) = S}

IsOrdering(s, S) == Len(s) = Cardinality(S) /\ SeqToSet(s) = S

\* all sequences over S of length at most n
SeqsUpTo(S, n) == UNION {[1..m -> S] : m \in 0..n}

\* ------------------------------------------------------------------------
\* Cache keys (lines 269, 275, 325 and 380, 386, 436)
\* ------------------------------------------------------------------------
Prefix(kind) == IF kind = "members" THEN "conversation_members:" ELSE "user_info:"

\* f"conversation_members:{channel_id}" / f"user_info:{user_id}"
CacheKey(kind, id) == <<Prefix(kind)>> \o id

\* key.replace('conversation_members:', '') removes every occurrence
StripPrefixAll(kind, key) == SelectSeq(key, LAMBDA t : t # Prefix(kind))

StripPrefix(kind, key) == StripPrefixAll(kind, key)

\* ------------------------------------------------------------------------
\* _create_batches (lines 246-251)
\* ------------------------------------------------------------------------
\* range(start, stop, step) for step # 0, as the sequence of its elements
RECURSIVE PyRange(_, _, _)
PyRange(start, stop, step) ==
    IF (step > 0 /\ start >= stop) \/ (step < 0 /\ start <= stop)
    THEN <<>>
    ELSE <<start>> \o PyRange(start + step, stop, step)

\* ids[i:j] for 0 <= i, j
PySlice(ids, i, j) == SubSeq(ids, i + 1, Min(j, Len(ids)))

\* the constructor's self.batch_size = min(batch_size, 50)
ClampBatchSize(b) == Min(b, SLACK_MAX_BATCH)

\* (mutant) one batch per id, whatever the batch size
CreateBatchesOfOne(ids, bs) ==
    [raised |-> FALSE, batches |-> [j \in 1..Len(ids) |-> <<ids[j]>>]]

\* [raised |-> TRUE] when range() raises ValueError (step 0)
CreateBatches(ids, bs) ==
    IF bs = 0
    THEN [raised |-> TRUE, batches |-> <<>>]
    ELSE LET starts == PyRange(0, Len(ids), bs)
         IN  [raised |-> FALSE,
              batches |-> [j \in 1..Len(starts) |-> PySlice(ids, starts[j], starts[j] + bs)]]

\* ------------------------------------------------------------------------
\* State
\* ------------------------------------------------------------------------
VARIABLES
    cache_type,        \* self.cache_type: "memory" or "redis"
    batch_size,        \* self.batch_size
    cache_ttl,         \* self.cache_ttl
    redis_client,      \* TRUE when self.redis_client is a client object
    now,               \* time.time()
    memory_cache,      \* self.memory_cache: key -> value
    cache_timestamps,  \* self.cache_timestamps: key -> time of insertion
    redis_store,       \* the networked store: key -> [text, exp]
    metrics,           \* self.metrics (CacheMetrics)
    fetch,             \* the get_conversation_members / get_users_info calls
    lookups,           \* history: number of cache keys looked up by fetches
    cacheOp,           \* the last _get_cached / _set_cached call and its result
    lastSet,           \* history: key -> [value, at] of the last in-process write
    plan,              \* a _create_batches call: its argument and its result
    max_retries,       \* self.max_retries
    retry_delay,       \* self.retry_delay
    ctor,              \* history: the constructor's cache_type argument and how Redis init ended
    cleanup_task,      \* self._cleanup_task: 0 (None) or the index of a task in evictors
    evictors,          \* the cleanup_loop tasks created on the event loop, each "running" or "cancelled"
    closed,            \* close() has returned
    retry              \* an _execute_with_retry call on its own

cfgVars == <<cache_type, batch_size, cache_ttl, redis_client, max_retries, retry_delay, ctor>>

taskVars == <<cleanup_task, evictors, closed>>

storeVars == <<memory_cache, cache_timestamps, redis_store>>

vars == <<cache_type, batch_size, cache_ttl, redis_client, now, memory_cache,
          cache_timestamps, redis_store, metrics, fetch, lookups, cacheOp, lastSet, plan,
          max_retries, retry_delay, ctor, cleanup_task, evictors, closed, retry>>

\* ------------------------------------------------------------------------
\* CacheMetrics (lines 36-52) and get_metrics (lines 476-485)
\* ------------------------------------------------------------------------
CacheMetrics == [cache_hits |-> 0, cache_misses |-> 0, api_calls |-> 0, batches_saved |-> 0]

total_requests(m) == m.cache_hits + m.cache_misses

\* round(x * 100, 2) of f"{x * 100:.2f}" for x = hits / total, in hundredths
\* of a percent, rounded to the nearest
cache_hit_rate(m) ==
    IF total_requests(m) = 0
    THEN 0
    ELSE (2 * 10000 * m.cache_hits + total_requests(m)) \div (2 * total_requests(m))

get_metrics(m) ==
    [cache_hits |-> m.cache_hits, cache_misses |-> m.cache_misses,
     api_calls |-> m.api_calls, batches_saved |-> m.batches_saved,
     total_requests |-> total_requests(m), cache_hit_rate |-> cache_hit_rate(m)]

\* ------------------------------------------------------------------------
\* The cache (lines 151-228)
\* ------------------------------------------------------------------------
UsesRedis == cache_type = "redis" /\ redis_client

\* json.dumps(value) and json.loads(text); a text some other writer left in
\* the store need not be JSON, and json.loads raises on it
JsonDumps(v) == <<"json">> \o v

NotJson == <<"notjson">>

JsonLoadsRaises(text) == Head(text) # "json"

JsonLoads(text) == Tail(text)

\* GET key: the text, or None once the key's expiry has passed
RedisGet(key, t) ==
    IF key \in DOMAIN redis_store /\ t < redis_store[key].exp
    THEN redis_store[key].text
    ELSE None

\* SETEX key ttl text
RedisSetex(store, key, ttl, text, t) == DictPut(store, key, [text |-> text, exp |-> t + ttl])

\* (mutant) the TTL test with < for <=
FreshAtStrict(key, t) ==
    /\ key \in DOMAIN cache_timestamps
    /\ cache_timestamps[key] # 0
    /\ t - cache_timestamps[key] < cache_ttl

\* the TTL test of lines 163 and 204
FreshAt(key, t) ==
    /\ key \in DOMAIN cache_timestamps
    /\ cache_timestamps[key] # 0
    /\ t - cache_timestamps[key] <= cache_ttl

\* lines 191-195 and 197-199: the loop over zip(keys, responses); an exception
\* in the loop keeps what the loop has put in results and misses so far and
\* then extends misses by every key
RECURSIVE RedisBatchLoop(_, _, _, _, _)
RedisBatchLoop(keys, j, results, misses, t) ==
    IF j > Len(keys)
    THEN [results |-> results, misses |-> misses, raised |-> FALSE]
    ELSE LET value == RedisGet(keys[j], t)
         IN  IF value # None
             THEN IF JsonLoadsRaises(value)
                  THEN [results |-> results, misses |-> misses \o keys, raised |-> TRUE]
                  ELSE RedisBatchLoop(keys, j + 1, DictPut(results, keys[j], JsonLoads(value)), misses, t)
             ELSE RedisBatchLoop(keys, j + 1, results, Append(misses, keys[j]), t)

\* lines 201-207
RECURSIVE MemoryBatchLoop(_, _, _, _, _)
MemoryBatchLoop(keys, j, results, misses, t) ==
    IF j > Len(keys)
    THEN [results |-> results, misses |-> misses, raised |-> FALSE]
    ELSE IF FreshAt(keys[j], t)
         THEN MemoryBatchLoop(keys, j + 1, DictPut(results, keys[j], DictGet(memory_cache, keys[j])), misses, t)
         ELSE MemoryBatchLoop(keys, j + 1, results, Append(misses, keys[j]), t)

\* _get_cached_batch without its metrics update; io is "ok" or "fail", the
\* outcome of pipe.execute(); raised tells whether the except clause ran
\* (mutant) a failed pipeline that reports no key as missed
GetCachedBatchDropsKeys(keys, io, t) ==
    IF UsesRedis
    THEN IF io = "fail"
         THEN [results |-> EmptyDict, misses |-> <<>>, raised |-> TRUE]
         ELSE RedisBatchLoop(keys, 1, EmptyDict, <<>>, t)
    ELSE MemoryBatchLoop(keys, 1, EmptyDict, <<>>, t)

\* _get_cached_batch up to line 207
GetCachedBatch(keys, io, t) ==
    IF UsesRedis
    THEN IF io = "fail"
         THEN [results |-> EmptyDict, misses |-> keys, raised |-> TRUE]
         ELSE RedisBatchLoop(keys, 1, EmptyDict, <<>>, t)
    ELSE MemoryBatchLoop(keys, 1, EmptyDict, <<>>, t)

\* (mutant) counters that start again at every lookup
CountLookupPerCall(m, got) ==
    [m EXCEPT !.cache_hits = Cardinality(DOMAIN got.results),
              !.cache_misses = Len(got.misses)]

\* lines 209-210
CountLookup(m, got) ==
    [m EXCEPT !.cache_hits = @ + Cardinality(DOMAIN got.results),
              !.cache_misses = @ + Len(got.misses)]

\* _get_cached (lines 151-165)
GetCached(key, io, t) ==
    IF UsesRedis
    THEN IF io = "fail"
         THEN None
         ELSE LET value == RedisGet(key, t)
              IN  IF value # None
                  THEN IF JsonLoadsRaises(value) THEN None ELSE JsonLoads(value)
                  ELSE None
    ELSE IF FreshAt(key, t) THEN DictGet(memory_cache, key) ELSE None

\* the try block of _get_cached raises (lines 154-159): the GET fails or
\* json.loads rejects the text
GetCachedRaises(key, io, t) ==
    /\ UsesRedis
    /\ \/ io = "fail"
       \/ RedisGet(key, t) # None /\ JsonLoadsRaises(RedisGet(key, t))

\* (mutant) an in-process write that stores the values without timestamps
SetCachedBatchNoTimestamp(entries, io, t) ==
    IF UsesRedis
    THEN [mc |-> memory_cache,
          ts |-> cache_timestamps,
          rs |-> IF io = "fail"
                 THEN redis_store
                 ELSE DictMerge(redis_store,
                                [k \in DOMAIN entries |->
                                    [text |-> JsonDumps(entries[k]), exp |-> t + cache_ttl]])]
    ELSE [mc |-> DictMerge(memory_cache, entries),
          ts |-> cache_timestamps,
          rs |-> redis_store]

\* _set_cached_batch (lines 214-228) as the new contents of the three stores;
\* io is "ok" or "fail", the outcome of pipe.execute()
SetCachedBatch(entries, io, t) ==
    IF UsesRedis
    THEN [mc |-> memory_cache,
          ts |-> cache_timestamps,
          rs |-> IF io = "fail"
                 THEN redis_store
                 ELSE DictMerge(redis_store,
                                [k \in DOMAIN entries |->
                                    [text |-> JsonDumps(entries[k]), exp |-> t + cache_ttl]])]
    ELSE [mc |-> DictMerge(memory_cache, entries),
          ts |-> DictMerge(cache_timestamps, [k \in DOMAIN entries |-> t]),
          rs |-> redis_store]

\* history of in-process writes, for the round-trip property
NoteSets(entries, t) ==
    IF UsesRedis
    THEN lastSet
    ELSE DictMerge(lastSet, [k \in DOMAIN entries |-> [value |-> entries[k], at |-> t]])

\* ------------------------------------------------------------------------
\* The remote service (the calls of lines 336-339 and 447-450)
\* ------------------------------------------------------------------------
G1 == <<"G1">>

G2 == <<"G2">>

G3 == <<"G3">>

RemoteMembers(id) ==
    CASE id = G1 -> PyList(<<"U1", "U2">>)
      [] id = G2 -> PyList(<<"U3">>)
      [] OTHER   -> PyList(<<"U4">>)

RemoteUser(id) == PyUser(id)

\* what fetch_channel_members (lines 334-343) / fetch_user_info (lines
\* 445-454) return as the second component, for the outcome out of the call
FetchOne(kind, id, out) ==
    IF kind = "members"
    THEN IF out = "ok" THEN RemoteMembers(id) ELSE PyList(<<>>)
    ELSE IF out = "ok" THEN RemoteUser(id) ELSE None

\* ------------------------------------------------------------------------
\* The retry policy of _execute_with_retry (lines 230-244): api_call returns
\* ("ok"), raises SlackApiError with response['error'] = "rate_limited" or
\* "channel_not_found", or raises another exception
\* ------------------------------------------------------------------------
SlackApiErrors == {"rate_limited", "channel_not_found"}

ApiOutcomes == {"ok", "exception"} \cup SlackApiErrors

\* (mutant) every SlackApiError is retried
IsRetryableAlways(error) == TRUE

\* _is_retryable_error (lines 242-244)
IsRetryableError(error) == error = "rate_limited"

RECURSIVE Pow2(_)
Pow2(n) == IF n <= 0 THEN 1 ELSE 2 * Pow2(n - 1)

\* (mutant) a delay that grows linearly
BackoffDelayLinear(rd, retry_count) == rd * (retry_count + 1)

\* line 236
BackoffDelay(rd, retry_count) == rd * Pow2(retry_count)

\* what line 235 decides for a SlackApiError
RetriesError(error, retry_count, mr) == retry_count < mr /\ IsRetryableError(error)

\* ------------------------------------------------------------------------
\* The two semaphores and the fan-out (lines 284-294, 345-353, 456-464)
\* ------------------------------------------------------------------------
InnerLimit(kind) == IF kind = "members" THEN INNER_LIMIT_MEMBERS ELSE INNER_LIMIT_USERS

\* (mutant) a semaphore that never blocks
SemNeverBlocks(value) == TRUE

\* asyncio.Semaphore: acquire() passes only while the value is positive
SemCanAcquire(value) == value > 0

NewItem(id) == [id |-> id, pc |-> "waiting", out |-> "none", val |-> None, attempts |-> 0]

\* the waiting tasks take the free permits in the order gather() created them
RECURSIVE StartItems(_, _, _)
StartItems(items, j, permits) ==
    IF j > Len(items) \/ ~SemCanAcquire(permits)
    THEN [items |-> items, permits |-> permits]
    ELSE IF items[j].pc = "waiting"
         THEN StartItems([items EXCEPT ![j].pc = "inflight", ![j].attempts = @ + 1],
                         j + 1, permits - 1)
         ELSE StartItems(items, j + 1, permits)

NewBatch(ids) ==
    [ids |-> ids, pc |-> "waiting", items |-> <<>>, inner |-> 0, result |-> EmptyDict,
     retry_count |-> 0]

\* _fetch_conversation_members_batch / _fetch_users_info_batch up to the
\* gather(): one task per id and a new Semaphore(10) / Semaphore(20)
StartBatch(batch, kind) ==
    LET st == StartItems([j \in 1..Len(batch.ids) |-> NewItem(batch.ids[j])], 1, InnerLimit(kind))
    IN  [batch EXCEPT !.pc = "running", !.items = st.items, !.inner = st.permits]

RECURSIVE StartBatches(_, _, _, _)
StartBatches(batches, b, permits, kind) ==
    IF b > Len(batches) \/ ~SemCanAcquire(permits)
    THEN [batches |-> batches, permits |-> permits]
    ELSE IF batches[b].pc = "waiting"
         THEN StartBatches([batches EXCEPT ![b] = StartBatch(batches[b], kind)], b + 1, permits - 1, kind)
         ELSE StartBatches(batches, b + 1, permits, kind)

\* lines 355-360 and 466-472: the batch's result dictionary
RECURSIVE BatchResult(_, _, _, _)
BatchResult(kind, items, j, results) ==
    IF j > Len(items)
    THEN results
    ELSE IF kind = "members" \/ Truthy(items[j].val)
         THEN BatchResult(kind, items, j + 1, DictPut(results, items[j].id, items[j].val))
         ELSE BatchResult(kind, items, j + 1, results)

\* what the batch coroutine does when its gather() is over: the exceptions
\* of the remote calls were caught inside fetch_channel_members /
\* fetch_user_info (lines 341-343, 452-454), so it returns its dictionary
BatchCallOutcome(items) == "ok"

\* _execute_with_retry around the batch coroutine (lines 288-291, 399-402):
\* a retried batch runs again from its start, inside the same outer permit;
\* a batch that raises leaves an exception in batch_results, which lines
\* 300-301 log and skip
BatchReturns(bt, kind) ==
    LET outcome == BatchCallOutcome(bt.items)
    IN  IF outcome = "ok"
        THEN [bt EXCEPT !.pc = "done", !.result = BatchResult(kind, bt.items, 1, EmptyDict)]
        ELSE IF outcome \in SlackApiErrors /\ RetriesError(outcome, bt.retry_count, max_retries)
             THEN LET again == StartItems([j \in 1..Len(bt.items) |->
                                              [bt.items[j] EXCEPT !.pc = "waiting", !.out = "none",
                                                                  !.val = None]],
                                          1, InnerLimit(kind))
                  IN  [bt EXCEPT !.items = again.items, !.inner = again.permits,
                                 !.retry_count = @ + 1]
             ELSE [bt EXCEPT !.pc = "done", !.result = EmptyDict]

\* (mutant) a batch that returns at the first completed call
ItemsDoneAny(items) == \E j \in 1..Len(items) : items[j].pc = "done"

ItemsDone(items) == \A j \in 1..Len(items) : items[j].pc = "done"

BatchesDone(batches) == \A b \in 1..Len(batches) : batches[b].pc = "done"

\* lines 297-306 / 408-417: every batch result merged in the order of gather()
RECURSIVE FreshResults(_, _, _)
FreshResults(batches, b, acc) ==
    IF b > Len(batches)
    THEN acc
    ELSE FreshResults(batches, b + 1, DictMerge(acc, batches[b].result))

CacheEntries(kind, fresh) ==
    [k \in {CacheKey(kind, id) : id \in DOMAIN fresh} |->
        fresh[CHOOSE id \in DOMAIN fresh : CacheKey(kind, id) = k]]

\* _format_conversation_results / _format_user_results (lines 321-327,
\* 432-438), over the cached keys in the order they were inserted
RECURSIVE FormatResults(_, _, _, _, _)
FormatResults(kind, keys, cached, j, formatted) ==
    IF j > Len(keys)
    THEN formatted
    ELSE IF keys[j] \in DOMAIN cached
         THEN FormatResults(kind, keys, cached, j + 1,
                            DictPut(formatted, StripPrefix(kind, keys[j]), cached[keys[j]]))
         ELSE FormatResults(kind, keys, cached, j + 1, formatted)

\* ------------------------------------------------------------------------
\* get_conversation_members (lines 253-319) / get_users_info (lines 364-430)
\* ------------------------------------------------------------------------
Calls == {1, 2}

Kinds == {"members", "users"}

IdleFetch ==
    [pc |-> "idle", kind |-> "members", input |-> <<>>, unique_ids |-> <<>>, keys |-> <<>>,
     cached_results |-> EmptyDict, misses |-> <<>>, to_fetch |-> <<>>, planned |-> FALSE,
     batches |-> <<>>, outer |-> 0, raised |-> FALSE, result |-> EmptyDict,
     m0 |-> CacheMetrics, m1 |-> CacheMetrics, cachedAt |-> {}, read_raised |-> FALSE,
     write_raised |-> FALSE, reordered |-> FALSE]

\* history: the store in use holds an entry for key that has not expired at
\* time t (stated on the stores themselves, not through the lookup code)
HasEntry(key, t) ==
    IF UsesRedis
    THEN key \in DOMAIN redis_store /\ t < redis_store[key].exp
    ELSE /\ key \in DOMAIN memory_cache
         /\ key \in DOMAIN cache_timestamps
         /\ t - cache_timestamps[key] <= cache_ttl

\* the call up to its first suspension: dedup, cache lookup, planning, and
\* the start of the batches and items the semaphores admit.  unique is the
\* order list(set(ids)) happens to produce; io the outcome of the cache read
FetchStart(i, kind, ids, unique, io) ==
    /\ fetch[i].pc = "idle"
    /\ IsOrdering(unique, SeqToSet(ids))
    /\ io \in (IF UsesRedis THEN {"ok", "fail"} ELSE {"ok"})
    /\ LET keys == [j \in 1..Len(unique) |-> CacheKey(kind, unique[j])]
           got == GetCachedBatch(keys, io, now)
           to_fetch == [j \in 1..Len(got.misses) |-> StripPrefix(kind, got.misses[j])]
           planned == CreateBatches(to_fetch, batch_size)
           started == StartBatches([b \in 1..Len(planned.batches) |-> NewBatch(planned.batches[b])],
                                   1, OUTER_LIMIT, kind)
           base == [IdleFetch EXCEPT !.kind = kind, !.input = ids, !.unique_ids = unique,
                                     !.keys = keys, !.cached_results = got.results,
                                     !.misses = got.misses, !.to_fetch = to_fetch,
                                     !.m0 = metrics,
                                     !.cachedAt = {id \in SeqToSet(ids) : HasEntry(CacheKey(kind, id), now)},
                                     !.read_raised = got.raised]
       IN  /\ metrics' = CountLookup(metrics, got)
           /\ lookups' = lookups + Len(keys)
           /\ fetch' = [fetch EXCEPT ![i] =
                 IF to_fetch = <<>>
                 THEN [base EXCEPT !.pc = "done", !.m1 = CountLookup(metrics, got),
                                   !.result = FormatResults(kind, keys, got.results, 1, EmptyDict)]
                 ELSE IF planned.raised
                      THEN [base EXCEPT !.pc = "done", !.m1 = CountLookup(metrics, got),
                                        !.raised = TRUE]
                      ELSE [base EXCEPT !.pc = "gathering", !.planned = TRUE,
                                        !.batches = started.batches, !.outer = started.permits]]
    /\ UNCHANGED <<cfgVars, taskVars, retry, storeVars, now, cacheOp, lastSet, plan>>

\* history: the call of slot <<b, j>> completes while the call of an earlier
\* slot of gather()'s order (an earlier batch, or an earlier id of the same
\* batch) has not completed
Overtakes(f, b, j) ==
    \/ \E c \in 1..(b - 1) : f.batches[c].pc # "done"
    \/ \E k \in 1..(j - 1) : f.batches[b].items[k].pc # "done"

\* one remote call of one batch returns or raises; its inner permit passes
\* to the next waiting item; a batch whose items are all done returns its
\* result and its outer permit passes to the next waiting batch
RemoteReturned(f, b, j, out) ==
    LET bt == f.batches[b]
        items1 == [bt.items EXCEPT ![j] = [@ EXCEPT !.pc = "done", !.out = out,
                                                    !.val = FetchOne(f.kind, bt.items[j].id, out)]]
        st == StartItems(items1, 1, bt.inner + 1)
        bt1 == IF ItemsDone(st.items)
               THEN BatchReturns([bt EXCEPT !.items = st.items, !.inner = st.permits], f.kind)
               ELSE [bt EXCEPT !.items = st.items, !.inner = st.permits]
        batches1 == [f.batches EXCEPT ![b] = bt1]
        sb == IF bt1.pc = "done"
              THEN StartBatches(batches1, 1, f.outer + 1, f.kind)
              ELSE [batches |-> batches1, permits |-> f.outer]
    IN  [f EXCEPT !.batches = sb.batches, !.outer = sb.permits]

CanReturn(i, b, j) ==
    /\ fetch[i].pc = "gathering"
    /\ b \in 1..Len(fetch[i].batches)
    /\ fetch[i].batches[b].pc = "running"
    /\ j \in 1..Len(fetch[i].batches[b].items)
    /\ fetch[i].batches[b].items[j].pc = "inflight"

RemoteReturn(i, b, j, out) ==
    /\ CanReturn(i, b, j)
    /\ fetch' = [fetch EXCEPT ![i] = RemoteReturned(fetch[i], b, j, out)]
    /\ UNCHANGED <<cfgVars, taskVars, retry, storeVars, now, metrics, lookups, cacheOp, lastSet, plan>>

\* after the gather(): merge, write the cache, update the metrics, return;
\* io is the outcome of the cache write
FetchFinish(i, io) ==
    /\ fetch[i].pc = "gathering"
    /\ BatchesDone(fetch[i].batches)
    /\ LET f == fetch[i]
           fresh == FreshResults(f.batches, 1, EmptyDict)
           entries == CacheEntries(f.kind, fresh)
           writes == DOMAIN entries # {}
           new == SetCachedBatch(entries, io, now)
           all == DictMerge(FormatResults(f.kind, f.keys, f.cached_results, 1, EmptyDict), fresh)
       IN  /\ io \in (IF UsesRedis /\ writes THEN {"ok", "fail"} ELSE {"ok"})
           /\ memory_cache' = IF writes THEN new.mc ELSE memory_cache
           /\ cache_timestamps' = IF writes THEN new.ts ELSE cache_timestamps
           /\ redis_store' = IF writes THEN new.rs ELSE redis_store
           /\ lastSet' = IF writes THEN NoteSets(entries, now) ELSE lastSet
           /\ metrics' = [metrics EXCEPT
                 !.api_calls = @ + Len(f.batches),
                 !.batches_saved = @ + Max(0, Len(f.unique_ids) - Len(f.batches))]
           /\ fetch' = [fetch EXCEPT ![i].pc = "done", ![i].result = all, ![i].m1 = metrics',
                                      ![i].write_raised = (io = "fail")]
    /\ UNCHANGED <<cfgVars, taskVars, retry, now, lookups, cacheOp, plan>>

\* time passes
Tick ==
    /\ now < MaxTime
    /\ now' = now + 1
    /\ UNCHANGED <<cfgVars, taskVars, retry, storeVars, metrics, fetch, lookups, cacheOp, lastSet, plan>>

\* ------------------------------------------------------------------------
\* The client after __init__ (lines 60-91)
\* ------------------------------------------------------------------------
\* list(set(ids)) is the first thing a call does with its argument, so of the
\* lists with the same elements one without and one with a repeated element
\* are enumerated: the ids of pool at the positions in S, and the same list
\* with its last element given twice
ListOf(pool, S) ==
    LET pick[n \in 0..Len(pool)] ==
            IF n = 0 THEN <<>>
            ELSE IF n \in S THEN Append(pick[n - 1], pool[n]) ELSE pick[n - 1]
    IN  pick[Len(pool)]

Inputs(pool) ==
    LET lists == {ListOf(pool, S) : S \in SUBSET (1..Len(pool))}
    IN  {s \in lists : Len(s) <= MaxLen}
            \cup {Append(s, s[Len(s)]) : s \in {x \in lists : Len(x) >= 1 /\ Len(x) < MaxLen}}

\* what the networked store may hold when the client connects: nothing, or
\* a text another writer left under one of the keys
ForeignEntry == [text |-> NotJson, exp |-> MaxTime + 1]

RedisInits ==
    {EmptyDict, [k \in {CacheKey("members", G2), CacheKey("users", G2)} |-> ForeignEntry]}

\* _start_cleanup_task (lines 118-130): a new cleanup_loop task, kept in
\* self._cleanup_task
StartCleanupTask(st) ==
    [st EXCEPT !.evictors = Append(st.evictors, "running"),
               !.cleanup_task = Len(st.evictors) + 1]

\* (mutant) a fallback that starts no evictor
InitializeRedisNoEvictor(st, redis_ok) ==
    IF redis_ok
    THEN [st EXCEPT !.redis_client = TRUE]
    ELSE [st EXCEPT !.cache_type = "memory"]

\* _initialize_redis (lines 93-116); redis_ok is FALSE when redis.Redis()
\* raises
InitializeRedis(st, redis_ok) ==
    IF redis_ok
    THEN [st EXCEPT !.redis_client = TRUE]
    ELSE StartCleanupTask([st EXCEPT !.cache_type = "memory"])

\* lines 71-91 for the cache and the evictor: line 89 sets _cleanup_task to
\* None after _initialize_redis has run, and line 90 tests the argument
\* cache_type, not self.cache_type
InitCacheAndEvictor(ct, redis_ok) ==
    LET s0 == [cache_type |-> ct, redis_client |-> FALSE, evictors |-> <<>>, cleanup_task |-> 0]
        s1 == IF ct = "redis" THEN InitializeRedis(s0, redis_ok) ELSE s0
        s2 == [s1 EXCEPT !.cleanup_task = 0]
    IN  IF ct = "memory" THEN StartCleanupTask(s2) ELSE s2

IdleRetry == [pc |-> "idle", retry_count |-> 0, calls |-> 0, sleeps |-> <<>>, error |-> "none"]

ConstructedWith(ct, bs, ttl, mr, rd, redis_ok) ==
    LET st == InitCacheAndEvictor(ct, redis_ok)
    IN  /\ cache_type = st.cache_type
        /\ cache_ttl = ttl
        /\ batch_size = ClampBatchSize(bs)
        /\ max_retries = mr
        /\ retry_delay = rd
        /\ memory_cache = EmptyDict
        /\ cache_timestamps = EmptyDict
        /\ redis_client = st.redis_client
        /\ metrics = CacheMetrics
        /\ cleanup_task = st.cleanup_task
        /\ evictors = st.evictors
        /\ closed = FALSE
        /\ retry = IdleRetry
        /\ ctor = [cache_type |-> ct,
                   redis_init |-> IF ct # "redis" THEN "none"
                                  ELSE IF redis_ok THEN "ok" ELSE "raised"]

Constructed(ct, bs, ttl) ==
    ConstructedWith(ct, bs, ttl, DEFAULT_MAX_RETRIES, DEFAULT_RETRY_DELAY, TRUE)

\* constructor arguments <<cache_type, batch_size>>
Configs ==
    {<<"memory", 1>>, <<"memory", 2>>, <<"memory", 60>>, <<"memory", -1>>, <<"memory", 0>>,
     <<"redis", 2>>}

FewConfigs == {<<"memory", 1>>, <<"memory", 2>>, <<"memory", -1>>, <<"redis", 2>>}

\* what is there beside the client when it has been constructed
InitRest ==
    /\ redis_store \in (IF cache_type = "redis" THEN RedisInits ELSE {EmptyDict})
    /\ now = 1
    /\ fetch = [i \in Calls |-> IdleFetch]
    /\ lookups = 0
    /\ cacheOp = [op |-> "none", key |-> <<>>, result |-> None, at |-> 0, cleared |-> 0, raised |-> FALSE]
    /\ lastSet = EmptyDict
    /\ plan = [ids |-> <<>>, out |-> CreateBatches(<<>>, 1), done |-> FALSE]

InitOf(configs) ==
    /\ \E c \in configs : Constructed(c[1], c[2], 1)
    /\ InitRest

Init == InitOf(FewConfigs)

InitOne == InitOf(Configs)

\* call i is made, of kind kind and with ids drawn from pool
StartCall(i, kind, pool) ==
    /\ fetch[i].pc = "idle"
    /\ \E ids \in Inputs(pool), io \in {"ok", "fail"} :
          \E unique \in Orderings(SeqToSet(ids)) : FetchStart(i, kind, ids, unique, io)

\* one of the remote calls of call i completes
RemoteStepOf(i, outs) ==
    /\ fetch[i].pc = "gathering"
    /\ \E b \in 1..Len(fetch[i].batches) :
          /\ fetch[i].batches[b].pc = "running"
          /\ \E j \in 1..Len(fetch[i].batches[b].items), out \in outs :
                RemoteReturn(i, b, j, out)

RemoteStep(i) == RemoteStepOf(i, {"ok", "error"})

FinishCall(i) == \E io \in {"ok", "fail"} : FetchFinish(i, io)

\* two calls of one client, one after the other and of one kind
Next ==
    \/ Tick
    \/ \E i \in Calls, kind \in Kinds :
          /\ \A h \in Calls : h < i => fetch[h].pc = "done" /\ fetch[h].kind = kind
          /\ StartCall(i, kind, <<G1, G2>>)
    \/ \E i \in Calls : RemoteStep(i)
    \/ \E i \in Calls : FinishCall(i)

Spec == Init /\ [][Next]_vars

\* one call with up to three ids
NextOne ==
    \/ Tick
    \/ \E kind \in Kinds : StartCall(1, kind, <<G1, G2, G3>>)
    \/ RemoteStep(1)
    \/ FinishCall(1)

SpecOne == InitOne /\ [][NextOne]_vars

\* ------------------------------------------------------------------------
\* _create_batches on its own
\* ------------------------------------------------------------------------
BatchSizeArgs == {-1, 0, 1, 2, 3, 60}

InitPlan ==
    /\ \E b \in BatchSizeArgs : Constructed("memory", b, 1)
    /\ redis_store = EmptyDict
    /\ now = 1
    /\ fetch = [i \in Calls |-> IdleFetch]
    /\ lookups = 0
    /\ cacheOp = [op |-> "none", key |-> <<>>, result |-> None, at |-> 0, cleared |-> 0, raised |-> FALSE]
    /\ lastSet = EmptyDict
    /\ \E ids \in SeqsUpTo({G1, G2, G3}, MaxLen) :
          plan = [ids |-> ids, out |-> CreateBatches(<<>>, 1), done |-> FALSE]

CallCreateBatches ==
    /\ ~plan.done
    /\ plan' = [plan EXCEPT !.out = CreateBatches(plan.ids, batch_size), !.done = TRUE]
    /\ UNCHANGED <<cfgVars, taskVars, retry, storeVars, now, metrics, fetch, lookups, cacheOp, lastSet>>

SpecPlan == InitPlan /\ [][CallCreateBatches]_vars

\* ------------------------------------------------------------------------
\* The cache operations on their own (lines 132-176, 487-499)
\* ------------------------------------------------------------------------
CacheKeys == {CacheKey("members", G1), CacheKey("members", G2)}

CacheValues == {PyList(<<"U1", "U2">>), PyList(<<>>)}

\* _set_cached (lines 167-176); io is the outcome of the SETEX
SetCached(key, value, io) ==
    /\ io \in (IF UsesRedis THEN {"ok", "fail"} ELSE {"ok"})
    /\ LET new == SetCachedBatch([k \in {key} |-> value], io, now)
       IN  /\ memory_cache' = new.mc
           /\ cache_timestamps' = new.ts
           /\ redis_store' = new.rs
    /\ lastSet' = NoteSets([k \in {key} |-> value], now)
    /\ cacheOp' = [op |-> "set", key |-> key, result |-> None, at |-> now, cleared |-> 0,
                   raised |-> (UsesRedis /\ io = "fail")]
    /\ UNCHANGED <<cfgVars, taskVars, retry, now, metrics, fetch, lookups, plan>>

\* a call of _get_cached; io is the outcome of the GET
GetCachedCall(key, io) ==
    /\ io \in (IF UsesRedis THEN {"ok", "fail"} ELSE {"ok"})
    /\ cacheOp' = [op |-> "get", key |-> key, result |-> GetCached(key, io, now), at |-> now, cleared |-> 0,
                   raised |-> GetCachedRaises(key, io, now)]
    /\ UNCHANGED <<cfgVars, taskVars, retry, storeVars, now, metrics, fetch, lookups, lastSet, plan>>

\* (mutant) entries expire as soon as their age reaches the TTL
ExpiredKeysInclusive(t) == {k \in DOMAIN cache_timestamps : t - cache_timestamps[k] >= cache_ttl}

\* one run of _cleanup_expired_entries (lines 132-149)
ExpiredKeys(t) == {k \in DOMAIN cache_timestamps : t - cache_timestamps[k] > cache_ttl}

CleanupExpiredEntries ==
    /\ IF cache_type # "memory"
       THEN UNCHANGED <<memory_cache, cache_timestamps>>
       ELSE /\ memory_cache' = DictDrop(memory_cache, ExpiredKeys(now))
            /\ cache_timestamps' = DictDrop(cache_timestamps, ExpiredKeys(now))
    /\ UNCHANGED <<cfgVars, taskVars, retry, redis_store, now, metrics, fetch, lookups, cacheOp, lastSet, plan>>

\* (mutant) a clear_cache that leaves the timestamps
ClearCacheKeepsTimestamps(io) ==
    /\ io \in (IF UsesRedis THEN {"ok", "fail"} ELSE {"ok"})
    /\ IF UsesRedis
       THEN /\ redis_store' = IF io = "ok" THEN EmptyDict ELSE redis_store
            /\ UNCHANGED <<memory_cache, cache_timestamps, lastSet>>
       ELSE /\ memory_cache' = EmptyDict
            /\ lastSet' = EmptyDict
            /\ UNCHANGED <<cache_timestamps, redis_store>>
    /\ cacheOp' = [op |-> "clear", key |-> <<>>, result |-> None, at |-> now,
                   cleared |-> (IF UsesRedis THEN 0 ELSE Cardinality(DOMAIN memory_cache)),
                   raised |-> (UsesRedis /\ io = "fail")]
    /\ UNCHANGED <<cfgVars, taskVars, retry, now, metrics, fetch, lookups, plan>>

\* (mutant) a clear_cache that also starts the counters again
ClearCacheResetsMetrics(io) ==
    /\ io \in (IF UsesRedis THEN {"ok", "fail"} ELSE {"ok"})
    /\ IF UsesRedis
       THEN /\ redis_store' = IF io = "ok" THEN EmptyDict ELSE redis_store
            /\ UNCHANGED <<memory_cache, cache_timestamps, lastSet>>
       ELSE /\ memory_cache' = EmptyDict
            /\ cache_timestamps' = EmptyDict
            /\ lastSet' = EmptyDict
            /\ UNCHANGED redis_store
    /\ metrics' = CacheMetrics
    /\ cacheOp' = [op |-> "clear", key |-> <<>>, result |-> None, at |-> now,
                   cleared |-> (IF UsesRedis THEN 0 ELSE Cardinality(DOMAIN memory_cache)),
                   raised |-> (UsesRedis /\ io = "fail")]
    /\ UNCHANGED <<cfgVars, taskVars, retry, now, fetch, lookups, plan>>

\* clear_cache (lines 487-499); io is the outcome of FLUSHDB
ClearCache(io) ==
    /\ io \in (IF UsesRedis THEN {"ok", "fail"} ELSE {"ok"})
    /\ IF UsesRedis
       THEN /\ redis_store' = IF io = "ok" THEN EmptyDict ELSE redis_store
            /\ UNCHANGED <<memory_cache, cache_timestamps, lastSet>>
       ELSE /\ memory_cache' = EmptyDict
            /\ cache_timestamps' = EmptyDict
            /\ lastSet' = EmptyDict
            /\ UNCHANGED redis_store
    /\ cacheOp' = [op |-> "clear", key |-> <<>>, result |-> None, at |-> now,
                   cleared |-> (IF UsesRedis THEN 0 ELSE Cardinality(DOMAIN memory_cache)),
                   raised |-> (UsesRedis /\ io = "fail")]
    /\ UNCHANGED <<cfgVars, taskVars, retry, now, metrics, fetch, lookups, plan>>

InitCache == InitOf({<<"memory", 2>>, <<"redis", 2>>})

NextCache ==
    \/ Tick
    \/ \E key \in CacheKeys, value \in CacheValues, io \in {"ok", "fail"} : SetCached(key, value, io)
    \/ \E key \in CacheKeys, io \in {"ok", "fail"} : GetCachedCall(key, io)
    \/ CleanupExpiredEntries
    \/ \E io \in {"ok", "fail"} : ClearCache(io)

SpecCache == InitCache /\ [][NextCache]_vars

\* ========================================================================
\* Properties
\* ========================================================================

\* ceil(a / b) for a >= 0 and b # 0
CeilDiv(a, b) == IF b > 0 THEN (a + b - 1) \div b ELSE -(a \div (-b))

\* C1 (SpecCache): on the in-process cache, a _get_cached(k) that follows a
\* write of v under k (with no clear_cache in between) returns v while
\* now - insertion time <= cache_ttl, and returns None once now - insertion
\* time > cache_ttl, whether or not the entry is still in memory_cache.
C1_CacheRoundTrip ==
    (~UsesRedis /\ cacheOp.op = "get" /\ cacheOp.key \in DOMAIN lastSet) =>
        LET s == lastSet[cacheOp.key]
        IN  IF cacheOp.at - s.at <= cache_ttl
            THEN cacheOp.result = s.value
            ELSE cacheOp.result = None

\* C1 witness: lazy expiry -- a get answered None for a key whose expired
\* entry is still physically in memory_cache
C1_Witness ==
    /\ ~UsesRedis
    /\ cacheOp.op = "get"
    /\ cacheOp.key \in DOMAIN lastSet
    /\ cacheOp.key \in DOMAIN memory_cache
    /\ memory_cache[cacheOp.key] # None
    /\ cacheOp.at = now
    /\ now - lastSet[cacheOp.key].at > cache_ttl
    /\ cacheOp.result = None

\* ------------------------------------------------------------------------
\* One call with more batches than the outer semaphore has permits, or more
\* ids in a batch than the inner semaphore has permits
\* ------------------------------------------------------------------------
ConcId(n) == <<"E" \o ToString(n)>>

ConcIds(n) == [k \in 1..n |-> ConcId(k)]

\* two ids more than the permits of each semaphore
ConcSizes == {OUTER_LIMIT + 2, INNER_LIMIT_MEMBERS + 2, INNER_LIMIT_USERS + 2}

\* the remote raises for the first id and every third id after it
ConcOutcome(n) == IF n % 3 = 1 THEN "error" ELSE "ok"

ConcIndex(id) == CHOOSE n \in 1..(INNER_LIMIT_USERS + 2) : ConcId(n) = id

InitConc == InitOf({<<"memory", 1>>, <<"memory", 60>>})

StartConc(i, kind) ==
    /\ fetch[i].pc = "idle"
    /\ \E n \in ConcSizes :
          /\ batch_size = 1 => n = OUTER_LIMIT + 2
          /\ FetchStart(i, kind, ConcIds(n), ConcIds(n), "ok")

RemoteConc(i) ==
    /\ fetch[i].pc = "gathering"
    /\ \E b \in 1..Len(fetch[i].batches) :
          /\ fetch[i].batches[b].pc = "running"
          /\ \E j \in 1..Len(fetch[i].batches[b].items) :
                /\ fetch[i].batches[b].items[j].pc = "inflight"
                /\ Cardinality({k \in 1..(j - 1) :
                        fetch[i].batches[b].items[k].pc = "inflight"}) < MaxReorder
                /\ RemoteReturn(i, b, j, ConcOutcome(ConcIndex(fetch[i].batches[b].items[j].id)))

NextConc ==
    \/ \E kind \in Kinds : StartConc(1, kind)
    \/ RemoteConc(1)
    \/ FinishCall(1)

SpecConc == InitConc /\ [][NextConc]_vars

\* ------------------------------------------------------------------------
\* The life of one client: construction (with or without a Redis that can
\* be initialised), cache operations, one fetch, evictor runs, clear_cache,
\* get_metrics and close
\* ------------------------------------------------------------------------
\* constructor arguments cache_type and whether redis.Redis() succeeds
LifeConfigs == {<<"memory", TRUE>>, <<"redis", TRUE>>, <<"redis", FALSE>>}

InitLife ==
    /\ \E c \in LifeConfigs :
          ConstructedWith(c[1], 2, 1, DEFAULT_MAX_RETRIES, DEFAULT_RETRY_DELAY, c[2])
    /\ InitRest

\* one pass of cleanup_loop (lines 120-128) in the task k: the sleep is over
\* and _cleanup_expired_entries runs
EvictorRun(k) ==
    /\ k \in DOMAIN evictors
    /\ evictors[k] = "running"
    /\ CleanupExpiredEntries

\* get_metrics (lines 476-485) reads the counters
GetMetricsCall ==
    /\ cacheOp' = [op |-> "metrics", key |-> <<>>, result |-> None, at |-> now, cleared |-> 0, raised |-> FALSE]
    /\ UNCHANGED <<cfgVars, taskVars, retry, storeVars, now, metrics, fetch, lookups, lastSet, plan>>

\* close (lines 501-513): the task in self._cleanup_task, if there is one,
\* is cancelled and awaited
Close ==
    /\ ~closed
    /\ closed' = TRUE
    /\ evictors' = IF cleanup_task # 0
                    THEN [evictors EXCEPT ![cleanup_task] = "cancelled"]
                    ELSE evictors
    /\ UNCHANGED <<cfgVars, cleanup_task, retry, storeVars, now, metrics, fetch, lookups,
                   cacheOp, lastSet, plan>>

LifeKey == CacheKey("members", G2)

LifeValue == RemoteMembers(G2)

NextLife ==
    \/ Tick
    \/ \E io \in {"ok", "fail"} : SetCached(LifeKey, LifeValue, io)
    \/ \E io \in {"ok", "fail"} : GetCachedCall(LifeKey, io)
    \/ \E k \in 1..2 : EvictorRun(k)
    \/ \E io \in {"ok", "fail"} : ClearCache(io)
    \/ GetMetricsCall
    \/ Close
    \/ \E kind \in Kinds : StartCall(1, kind, <<G1, G2>>)
    \/ RemoteStep(1)
    \/ FinishCall(1)

SpecLife == InitLife /\ [][NextLife]_vars

\* ------------------------------------------------------------------------
\* _execute_with_retry (lines 230-244) on its own, for an api_call that
\* returns, raises SlackApiError with response['error'] = "rate_limited" or
\* "channel_not_found", or raises another exception
\* ------------------------------------------------------------------------
RetryBegin ==
    /\ retry.pc = "idle"
    /\ retry' = [retry EXCEPT !.pc = "calling"]
    /\ UNCHANGED <<cfgVars, taskVars, storeVars, now, metrics, fetch, lookups, cacheOp, lastSet, plan>>

\* line 233: api_call() is awaited and returns or raises
ApiCall(outcome) ==
    /\ retry.pc = "calling"
    /\ retry' =
          IF outcome = "ok"
          THEN [retry EXCEPT !.pc = "returned", !.calls = @ + 1, !.error = "none"]
          ELSE IF outcome \in SlackApiErrors /\ RetriesError(outcome, retry.retry_count, max_retries)
               THEN [retry EXCEPT !.pc = "sleeping", !.calls = @ + 1, !.error = outcome,
                                  !.sleeps = Append(@, BackoffDelay(retry_delay, retry.retry_count))]
               ELSE [retry EXCEPT !.pc = "raised", !.calls = @ + 1, !.error = outcome]
    /\ UNCHANGED <<cfgVars, taskVars, storeVars, now, metrics, fetch, lookups, cacheOp, lastSet, plan>>

\* lines 238-239: the sleep is over and the call is made again
RetryWake ==
    /\ retry.pc = "sleeping"
    /\ retry' = [retry EXCEPT !.pc = "calling", !.retry_count = @ + 1]
    /\ UNCHANGED <<cfgVars, taskVars, storeVars, now, metrics, fetch, lookups, cacheOp, lastSet, plan>>

RetryDelays == {1, 2, 3}

InitRetry ==
    /\ \E mr \in 0..MaxRetries, rd \in RetryDelays :
          ConstructedWith("memory", SLACK_MAX_BATCH, 1, mr, rd, TRUE)
    /\ InitRest

NextRetry ==
    \/ RetryBegin
    \/ \E outcome \in ApiOutcomes : ApiCall(outcome)
    \/ RetryWake

SpecRetry == InitRetry /\ [][NextRetry]_vars

\* ------------------------------------------------------------------------
\* One call whose remote calls may be rate limited
\* ------------------------------------------------------------------------
InitRate ==
    /\ \E mr \in {0, DEFAULT_MAX_RETRIES} :
          ConstructedWith("memory", 2, 1, mr, DEFAULT_RETRY_DELAY, TRUE)
    /\ InitRest

RateStep(i) == RemoteStepOf(i, {"ok"} \cup SlackApiErrors)

NextRate ==
    \/ \E kind \in Kinds : StartCall(1, kind, <<G1, G2>>)
    \/ RateStep(1)
    \/ FinishCall(1)

SpecRate == InitRate /\ [][NextRate]_vars

\* ------------------------------------------------------------------------
\* Two calls of one client, of one kind, that run at the same time
\* ------------------------------------------------------------------------
\* batch sizes 1 and 6: with 3 ids a call has 3 batches of one id, with 6
\* ids it has one batch of 6
InitShared == InitOf({<<"memory", 1>>, <<"memory", 6>>})

SharedSize == IF batch_size = 1 THEN OUTER_LIMIT - 2 ELSE (INNER_LIMIT_MEMBERS \div 2) + 1

StartShared(i, kind) ==
    /\ fetch[i].pc = "idle"
    /\ FetchStart(i, kind, ConcIds(SharedSize), ConcIds(SharedSize), "ok")

NextShared ==
    \/ \E i \in Calls, kind \in Kinds :
          /\ \A h \in Calls : fetch[h].pc # "idle" => fetch[h].kind = kind
          /\ StartShared(i, kind)
    \/ \E i \in Calls : RemoteConc(i)
    \/ \E i \in Calls : FinishCall(i)

SpecShared == InitShared /\ [][NextShared]_vars

\* --- vocabulary for the properties of calls ------------------------------
IdSet(f) == SeqToSet(f.input)

ItemSlots(f) ==
    UNION {{<<b, j>> : j \in 1..Len(f.batches[b].items)} : b \in 1..Len(f.batches)}

\* the remote calls the call has issued so far
RemoteCalls(f) == {s \in ItemSlots(f) : f.batches[s[1]].items[s[2]].pc # "waiting"}

RemoteCallsFor(f, id) == {s \in RemoteCalls(f) : f.batches[s[1]].items[s[2]].id = id}

AllRemoteOk(f) == \A s \in ItemSlots(f) : f.batches[s[1]].items[s[2]].out = "ok"

\* how often id occurs in the batches
Occurrences(f, id) ==
    Cardinality(UNION {{<<b, j>> : j \in {n \in 1..Len(f.batches[b].ids) : f.batches[b].ids[n] = id}} :
                       b \in 1..Len(f.batches)})

Remote(kind, id) == IF kind = "members" THEN RemoteMembers(id) ELSE RemoteUser(id)

\* --- C2 -----------------------------------------------------------------
C2_Case(f) == f.pc # "idle" /\ f.cachedAt = IdSet(f)

C2_Effect(f) ==
    /\ f.pc = "done"
    /\ ~f.raised
    /\ ~f.planned
    /\ f.batches = <<>>
    /\ RemoteCalls(f) = {}
    /\ f.m1.api_calls = f.m0.api_calls
    /\ f.m1.batches_saved = f.m0.batches_saved

\* C2 as stated: a call all of whose deduplicated ids have an unexpired
\* cache entry issues no remote call, creates no batch and leaves api_calls
\* and batches_saved unchanged.
C2_AsStated == \A i \in Calls : C2_Case(fetch[i]) => C2_Effect(fetch[i])

\* C2 (Spec), amended: a call all of whose deduplicated ids have an unexpired
\* cache entry, and whose cache read does not fail, issues no remote call,
\* creates no batch and leaves api_calls and batches_saved unchanged.
C2_ShortCircuit ==
    \A i \in Calls : (C2_Case(fetch[i]) /\ ~fetch[i].read_raised) => C2_Effect(fetch[i])

\* C2 witness: a call for G1 and G2, both cached, answered from the cache
C2_Witness ==
    \E i \in Calls :
        /\ C2_Case(fetch[i])
        /\ ~fetch[i].read_raised
        /\ IdSet(fetch[i]) = {G1, G2}
        /\ DOMAIN fetch[i].result = {G1, G2}
        /\ fetch[i].m1.cache_hits = fetch[i].m0.cache_hits + 2

\* --- C3 -----------------------------------------------------------------
C3_Effect(f) ==
    /\ ~f.raised
    /\ IdSet(f) \subseteq DOMAIN f.result
    /\ \A id \in IdSet(f) :
          IF id \in f.cachedAt
          THEN /\ CacheKey(f.kind, id) \in DOMAIN f.cached_results
               /\ f.result[id] = f.cached_results[CacheKey(f.kind, id)]
          ELSE f.result[id] = Remote(f.kind, id)
    /\ batch_size # 0
    /\ Len(f.batches) = CeilDiv(Cardinality(IdSet(f)) - Cardinality(f.cachedAt), batch_size)

\* C3 as stated: a call for M unique ids of which H have unexpired cache
\* entries, all of whose remote calls succeed, returns all M ids (the cached
\* value for the H, the fresh value for the others) and issues
\* ceil((M - H) / batch_size) batches.
C3_AsStated ==
    \A i \in Calls : (fetch[i].pc = "done" /\ AllRemoteOk(fetch[i])) => C3_Effect(fetch[i])

\* the same for batch sizes >= 1 and cache reads that do not fail (not the
\* claim)
C3_WellFormedOnly ==
    \A i \in Calls :
        (fetch[i].pc = "done" /\ AllRemoteOk(fetch[i]) /\ batch_size >= 1 /\ ~fetch[i].read_raised)
            => C3_Effect(fetch[i])

\* --- C4 -----------------------------------------------------------------
\* C4 as stated: cache_hits + cache_misses is the number of cache keys looked
\* up so far (one per deduplicated id per call), total_requests is that sum,
\* and cache_hit_rate is cache_hits / (cache_hits + cache_misses) (to the
\* two decimals reported), 0 when nothing was looked up.
C4_AsStated ==
    LET m == get_metrics(metrics)
    IN  /\ m.cache_hits + m.cache_misses = lookups
        /\ m.total_requests = lookups
        /\ lookups = 0 => m.cache_hit_rate = 0
        /\ lookups > 0 =>
              /\ 2 * lookups * m.cache_hit_rate - lookups <= 2 * 10000 * m.cache_hits
              /\ 2 * 10000 * m.cache_hits < 2 * lookups * m.cache_hit_rate + lookups

\* the same while no cache read has raised (not the claim)
C4_NoReadFailureOnly == (\A i \in Calls : ~fetch[i].read_raised) => C4_AsStated

\* --- C5 -----------------------------------------------------------------
BatchIds(f, b) == SeqToSet(f.batches[b].ids)

C5_Case(f) ==
    /\ f.pc = "done"
    /\ Len(f.batches) = 3
    /\ BatchIds(f, 2) \cap (BatchIds(f, 1) \cup BatchIds(f, 3)) = {}
    /\ \A j \in 1..Len(f.batches[2].items) : f.batches[2].items[j].out # "ok"
    /\ \A b \in {1, 3} : \A j \in 1..Len(f.batches[b].items) : f.batches[b].items[j].out = "ok"

C5_Effect(f) ==
    /\ ~f.raised
    /\ \A id \in BatchIds(f, 1) \cup BatchIds(f, 3) :
          id \in DOMAIN f.result /\ f.result[id] = Remote(f.kind, id)
    /\ \A id \in BatchIds(f, 2) : id \notin DOMAIN f.result

\* C5 as stated: when the misses of a call form 3 batches and every remote
\* call of batch 2 fails while those of batches 1 and 3 succeed, the map
\* returned holds the results of batches 1 and 3 and none of the ids of
\* batch 2, and no exception escapes.
C5_AsStated == \A i \in Calls : C5_Case(fetch[i]) => C5_Effect(fetch[i])

\* the same for get_users_info alone (not the claim)
C5_UsersOnly ==
    \A i \in Calls : (C5_Case(fetch[i]) /\ fetch[i].kind = "users") => C5_Effect(fetch[i])

\* --- C6 -----------------------------------------------------------------
ScenarioInput == <<G1, G2, G2>>

ScenarioResult == [id \in {G1, G2} |-> RemoteMembers(id)]

\* the entry of key is physically in the store of the configured backend
Stored(key, value) ==
    IF UsesRedis
    THEN key \in DOMAIN redis_store /\ redis_store[key].text = JsonDumps(value)
    ELSE key \in DOMAIN memory_cache /\ memory_cache[key] = value
             /\ key \in DOMAIN cache_timestamps

\* the first call of a fresh client on an empty cache, every remote call
\* answered
C6_Case(f) ==
    /\ f.pc = "done"
    /\ f.kind = "members"
    /\ f.input = ScenarioInput
    /\ batch_size >= 2
    /\ f.m0 = CacheMetrics
    /\ f.cachedAt = {}
    /\ \A k \in DOMAIN redis_store : redis_store[k].text # NotJson
    /\ AllRemoteOk(f)

C6_Fetched(f) ==
    /\ ~f.raised
    /\ Len(f.batches) = 1
    /\ Len(f.batches[1].ids) = 2
    /\ BatchIds(f, 1) = {G1, G2}
    /\ Cardinality(RemoteCalls(f)) = 2
    /\ \A id \in {G1, G2} : Cardinality(RemoteCallsFor(f, id)) = 1
    /\ f.result = ScenarioResult
    /\ get_metrics(f.m1).cache_hits = 0
    /\ get_metrics(f.m1).cache_misses = 2
    /\ get_metrics(f.m1).api_calls = 1
    /\ get_metrics(f.m1).batches_saved = 1

C6_Written(f) == \A id \in {G1, G2} : Stored(CacheKey("members", id), RemoteMembers(id))

\* C6 as stated: the first get_conversation_members(['G1','G2','G2']) of a
\* fresh client with an empty cache and batch_size >= 2 forms 1 batch of the
\* 2 unique ids, issues 2 remote calls, writes cache entries for both groups,
\* returns {G1: [U1,U2], G2: [U3]} and leaves the metrics at 0/2/1/1.
C6_AsStated ==
    C6_Case(fetch[1]) => (C6_Fetched(fetch[1]) /\ C6_Written(fetch[1]))

\* C6 (SpecOne), amended: the same, except that the cache entries for both
\* groups are written only when the write to the networked cache does not
\* fail (a failed write is dropped and the call still returns the data).
C6_FirstCall ==
    C6_Case(fetch[1]) =>
        /\ C6_Fetched(fetch[1])
        /\ ~fetch[1].write_raised => C6_Written(fetch[1])

\* C6 witness: the scenario has run to its end and both entries are stored
C6_Witness == C6_Case(fetch[1]) /\ C6_Written(fetch[1]) /\ fetch[1].result = ScenarioResult

\* --- C7 -----------------------------------------------------------------
\* the second call repeats the first call of the scenario while both entries
\* are unexpired
C7_Case(f1, f2) ==
    /\ f1.pc = "done" /\ f1.kind = "members" /\ f1.input = ScenarioInput
    /\ batch_size >= 2
    /\ f1.m0 = CacheMetrics
    /\ f1.cachedAt = {}
    /\ AllRemoteOk(f1)
    /\ f2.pc = "done" /\ f2.kind = "members" /\ f2.input = f1.input
    /\ f2.cachedAt = {G1, G2}

C7_SameData(f1, f2) ==
    /\ ~f2.raised
    /\ RemoteCalls(f2) = {}
    /\ f2.result = f1.result

\* C7 as stated: the repeated call issues no remote call, returns the data
\* of the first call, and get_metrics then reports cache_hits = 2 and
\* cache_misses = 0.
C7_AsStated ==
    C7_Case(fetch[1], fetch[2]) =>
        /\ C7_SameData(fetch[1], fetch[2])
        /\ get_metrics(fetch[2].m1).cache_hits = 2
        /\ get_metrics(fetch[2].m1).cache_misses = 0

\* C7 (Spec), amended: the repeated call, when its cache read does not fail,
\* issues no remote call and returns the data of the first call, and
\* get_metrics then reports cache_hits = 2 and cache_misses = 2: the
\* counters are cumulative, so the 2 misses of the first call stay.
C7_RepeatCall ==
    (C7_Case(fetch[1], fetch[2]) /\ ~fetch[2].read_raised) =>
        /\ C7_SameData(fetch[1], fetch[2])
        /\ get_metrics(fetch[2].m1).cache_hits = 2
        /\ get_metrics(fetch[2].m1).cache_misses = 2
        /\ get_metrics(fetch[2].m1).api_calls = 1

\* C7 witness: the repeated call has returned the scenario's data from the
\* cache
C7_Witness ==
    /\ C7_Case(fetch[1], fetch[2])
    /\ ~fetch[2].read_raised
    /\ fetch[2].result = ScenarioResult

\* --- C8 -----------------------------------------------------------------
Missing(f) == IdSet(f) \ f.cachedAt

NoDuplicate(seq) == Cardinality(SeqToSet(seq)) = Len(seq)

C8_Effect(f) ==
    /\ f.planned =>
          /\ ~f.raised
          /\ \A id \in Missing(f) : Occurrences(f, id) = 1
          /\ \A b \in 1..Len(f.batches) : NoDuplicate(f.batches[b].ids)
    /\ f.pc = "done" =>
          \A id \in Missing(f) : Cardinality(RemoteCallsFor(f, id)) = 1

\* C8 as stated: for any input list the batches of a call hold each unique
\* cache-missing id exactly once, no batch holds a duplicate, and each
\* unique missing id is the subject of exactly one remote call of the call.
C8_AsStated == \A i \in Calls : fetch[i].pc # "idle" => C8_Effect(fetch[i])

\* the same for batch sizes >= 1 and cache reads that do not fail (not the
\* claim)
C8_WellFormedOnly ==
    \A i \in Calls :
        (fetch[i].pc # "idle" /\ batch_size >= 1 /\ ~fetch[i].read_raised) => C8_Effect(fetch[i])

\* --- C10 ----------------------------------------------------------------
Running(f) == {b \in 1..Len(f.batches) : f.batches[b].pc = "running"}

InFlight(bt) == {j \in 1..Len(bt.items) : bt.items[j].pc = "inflight"}

\* C10 (SpecConc): within one call at most 5 batches are in flight and
\* within one batch at most 10 (get_conversation_members) or 20
\* (get_users_info) remote calls are in flight; every unit in flight holds
\* one permit of its semaphore, and a unit that has completed or failed
\* holds none.
C10_ConcurrencyBound ==
    \A i \in Calls :
        LET f == fetch[i]
        IN  /\ Cardinality(Running(f)) <= OUTER_LIMIT
            /\ f.planned => f.outer = OUTER_LIMIT - Cardinality(Running(f))
            /\ \A b \in 1..Len(f.batches) :
                  LET bt == f.batches[b]
                  IN  /\ Cardinality(InFlight(bt)) <= InnerLimit(f.kind)
                      /\ bt.pc = "running" =>
                            bt.inner = InnerLimit(f.kind) - Cardinality(InFlight(bt))
                      /\ bt.pc = "waiting" => bt.items = <<>>
                      /\ bt.pc = "done" => InFlight(bt) = {} /\ bt.inner = InnerLimit(f.kind)

\* C10 witness: a get_users_info batch with 20 calls in flight, one more
\* waiting for a permit, and one call that has failed and given its permit
\* back
C10_Witness ==
    \E b \in 1..Len(fetch[1].batches) :
        LET bt == fetch[1].batches[b]
        IN  /\ fetch[1].kind = "users"
            /\ Cardinality(InFlight(bt)) = INNER_LIMIT_USERS
            /\ \E j \in 1..Len(bt.items) : bt.items[j].pc = "waiting"
            /\ \E j \in 1..Len(bt.items) : bt.items[j].pc = "done" /\ bt.items[j].out = "error"

\* further states of the same kind: 5 batches in flight with a sixth waiting
\* after one has failed, and 10 get_conversation_members calls in flight
\* with an eleventh waiting
C10_OuterBinding ==
    /\ Cardinality(Running(fetch[1])) = OUTER_LIMIT
    /\ \E b \in 1..Len(fetch[1].batches) : fetch[1].batches[b].pc = "waiting"
    /\ \E b \in 1..Len(fetch[1].batches) :
          fetch[1].batches[b].pc = "done" /\ fetch[1].batches[b].items[1].out = "error"

C10_InnerBindingMembers ==
    \E b \in 1..Len(fetch[1].batches) :
        LET bt == fetch[1].batches[b]
        IN  /\ fetch[1].kind = "members"
            /\ Cardinality(InFlight(bt)) = INNER_LIMIT_MEMBERS
            /\ \E j \in 1..Len(bt.items) : bt.items[j].pc = "waiting"

\* --- C11 ----------------------------------------------------------------
\* the batches in flight of all calls, and the remote calls of one kind in
\* flight in all batches of all calls
AllRunning == {<<i, b>> \in Calls \X (1..(INNER_LIMIT_MEMBERS + 1)) :
                  b <= Len(fetch[i].batches) /\ fetch[i].batches[b].pc = "running"}

AllInFlight(kind) ==
    UNION {{<<r[1], r[2], j>> : j \in InFlight(fetch[r[1]].batches[r[2]])} :
           r \in {x \in AllRunning : fetch[x[1]].kind = kind}}

\* C11 as stated: over all calls running at the same time on one client and
\* all their batches, at most 5 batches are in flight and at most 10
\* (members) or 20 (user info) remote calls are in flight.
C11_AsStated ==
    /\ Cardinality(AllRunning) <= OUTER_LIMIT
    /\ \A kind \in Kinds : Cardinality(AllInFlight(kind)) <= InnerLimit(kind)

\* the outer bound alone, and the inner bound alone (not the claim)
C11_OuterShared == Cardinality(AllRunning) <= OUTER_LIMIT

C11_InnerShared == \A kind \in Kinds : Cardinality(AllInFlight(kind)) <= InnerLimit(kind)

\* --- C12 ----------------------------------------------------------------
\* C12 as stated: a per-entity remote call of a fetch that fails with the
\* rate-limit signal is retried up to max_retries times, and only when the
\* retries are exhausted does it become a per-unit failure: a unit that has
\* ended as a rate-limit failure was called max_retries + 1 times.
C12_AsStated ==
    \A i \in Calls : \A s \in ItemSlots(fetch[i]) :
        LET item == fetch[i].batches[s[1]].items[s[2]]
        IN  (item.pc = "done" /\ item.out = "rate_limited") => item.attempts = max_retries + 1

\* no remote call of a fetch is ever made a second time and no batch is ever
\* run again (not the claim)
C12_NeverRetried ==
    \A i \in Calls :
        /\ \A s \in ItemSlots(fetch[i]) : fetch[i].batches[s[1]].items[s[2]].attempts <= 1
        /\ \A b \in 1..Len(fetch[i].batches) : fetch[i].batches[b].retry_count = 0

\* --- C13 ----------------------------------------------------------------
NonRetryable == {"channel_not_found", "exception"}

\* C13 (SpecRetry): when api_call raises a SlackApiError whose error is not
\* 'rate_limited', or another exception, _execute_with_retry raises it at
\* once: no sleep follows and the call is not made again, so a call that
\* fails this way the first time is invoked exactly once.
C13_NoRetryOfTerminal ==
    retry.error \in NonRetryable =>
        /\ retry.pc = "raised"
        /\ retry.calls = retry.retry_count + 1
        /\ Len(retry.sleeps) = retry.retry_count
        /\ retry.retry_count = 0 => (retry.calls = 1 /\ retry.sleeps = <<>>)

\* C13 witness: a client with max_retries > 0 whose first api_call raised
\* channel_not_found, propagated after one invocation
C13_Witness ==
    /\ max_retries > 0
    /\ retry.pc = "raised"
    /\ retry.error = "channel_not_found"
    /\ retry.calls = 1
    /\ retry.sleeps = <<>>

\* --- C14 ----------------------------------------------------------------
\* the ids of a call all of whose remote calls were answered
Answered(f) ==
    {id \in IdSet(f) :
        /\ RemoteCallsFor(f, id) # {}
        /\ \A c \in RemoteCallsFor(f, id) : f.batches[c[1]].items[c[2]].out = "ok"}

C14_Reads ==
    UsesRedis =>
        /\ (cacheOp.op = "get" /\ cacheOp.raised) => cacheOp.result = None
        /\ \A i \in Calls :
              LET f == fetch[i]
              IN  /\ ~f.raised
                  /\ f.read_raised => SeqToSet(f.keys) \subseteq SeqToSet(f.misses)
                  /\ f.pc = "done" =>
                        \A id \in Answered(f) :
                            id \in DOMAIN f.result /\ f.result[id] = Remote(f.kind, id)

C14_Writes ==
    (/\ UsesRedis
     /\ \/ cacheOp' # cacheOp /\ cacheOp'.op = "set" /\ cacheOp'.raised
        \/ \E i \in Calls : fetch[i].pc = "gathering" /\ fetch'[i].pc = "done"
                                 /\ fetch'[i].write_raised)
        => redis_store' = redis_store

\* C14 (SpecLife): with the Redis cache a failure of a get, batch-get, set or
\* batch-set never reaches the caller: a failed get returns None, a failed
\* batch-get reports every key of the call as a miss, a failed set or
\* batch-set leaves the store as it was, and the fetch does not raise and
\* returns the remote result of every id whose remote calls were answered.
C14_CacheFailuresContained == []C14_Reads /\ [][C14_Writes]_vars

\* C14 witness: a fetch on Redis whose cache read and cache write both
\* failed and which returned the remote results of G1 and G2
C14_Witness ==
    /\ UsesRedis
    /\ fetch[1].pc = "done"
    /\ fetch[1].read_raised
    /\ fetch[1].write_raised
    /\ Answered(fetch[1]) = {G1, G2}
    /\ \A id \in {G1, G2} : fetch[1].result[id] = Remote(fetch[1].kind, id)

\* --- C15 ----------------------------------------------------------------
FellBack == ctor.cache_type = "redis" /\ ctor.redis_init = "raised"

RunningEvictors == {k \in DOMAIN evictors : evictors[k] = "running"}

C15_State ==
    FellBack =>
        /\ cache_type = "memory"
        /\ ~redis_client
        /\ ~UsesRedis
        /\ redis_store = EmptyDict
        /\ ~cacheOp.raised
        /\ \A i \in Calls : ~fetch[i].read_raised /\ ~fetch[i].write_raised
        /\ (cacheOp.op = "set" /\ now - cacheOp.at <= cache_ttl) =>
              /\ cacheOp.key \in DOMAIN memory_cache
              /\ cacheOp.key \in DOMAIN cache_timestamps
        /\ ~closed => RunningEvictors # {}

\* what a fetch of the fallback client fetched is written to memory_cache
C15_FetchWrites ==
    \A i \in Calls :
        (FellBack /\ fetch[i].pc = "gathering" /\ fetch'[i].pc = "done") =>
            /\ redis_store' = redis_store
            /\ \A id \in Answered(fetch'[i]) :
                  /\ CacheKey(fetch'[i].kind, id) \in DOMAIN memory_cache'
                  /\ memory_cache'[CacheKey(fetch'[i].kind, id)] = Remote(fetch'[i].kind, id)
                  /\ cache_timestamps'[CacheKey(fetch'[i].kind, id)] = now

\* C15 (SpecLife): a client constructed with cache_type = 'redis' whose
\* Redis initialisation raised exists, has cache_type = 'memory' and no
\* Redis client, does every cache operation on the in-process store (the
\* networked store is never touched, no operation fails as a Redis operation
\* does, a value just set is in memory_cache), and has an evictor running
\* until it is closed.
C15_Fallback == []C15_State /\ [][C15_FetchWrites]_vars

\* C15 witness: the fallback client has set a key, which is in memory_cache,
\* and its evictor is running
C15_Witness ==
    /\ FellBack
    /\ cacheOp.op = "set"
    /\ cacheOp.key \in DOMAIN memory_cache
    /\ RunningEvictors # {}
    /\ fetch[1].pc = "done"

\* --- C16 ----------------------------------------------------------------
\* C16 as stated: after close() has returned no evictor task started by the
\* client is running, also for a client that fell back to the memory cache
\* after a failed Redis initialisation.
C16_AsStated == closed => RunningEvictors = {}

\* the same for clients constructed with cache_type = 'memory' (not the
\* claim)
C16_MemoryOnly == (closed /\ ctor.cache_type = "memory") => RunningEvictors = {}

\* --- C17 ----------------------------------------------------------------
\* C17 (SpecCache): with the in-process cache, when clear_cache has returned
\* memory_cache and cache_timestamps are empty and a get or batch-get of any
\* key is a miss; a key is in the cache again only after it has been set
\* again, and until then a get of it is a miss.
C17_ClearEmpties ==
    ~UsesRedis =>
        /\ cacheOp.op = "clear" =>
              /\ memory_cache = EmptyDict
              /\ cache_timestamps = EmptyDict
              /\ \A key \in CacheKeys : GetCached(key, "ok", now) = None
              /\ \A keys \in Orderings(CacheKeys) :
                    /\ GetCachedBatch(keys, "ok", now).results = EmptyDict
                    /\ GetCachedBatch(keys, "ok", now).misses = keys
        /\ DOMAIN memory_cache \subseteq DOMAIN lastSet
        /\ DOMAIN cache_timestamps \subseteq DOMAIN lastSet
        /\ (cacheOp.op = "get" /\ cacheOp.key \notin DOMAIN lastSet) => cacheOp.result = None

\* C17 witness: clear_cache has just emptied an in-process cache that held
\* two entries
C17_Witness ==
    /\ ~UsesRedis
    /\ cacheOp.op = "clear"
    /\ cacheOp.cleared = 2
    /\ memory_cache = EmptyDict
    /\ cache_timestamps = EmptyDict

\* --- C18 ----------------------------------------------------------------
MetricsGrow ==
    /\ metrics'.cache_hits >= metrics.cache_hits
    /\ metrics'.cache_misses >= metrics.cache_misses
    /\ metrics'.api_calls >= metrics.api_calls
    /\ metrics'.batches_saved >= metrics.batches_saved

\* C18 (SpecLife): no step of the client (fetch, cache operation,
\* clear_cache, evictor run, get_metrics, close) decreases cache_hits,
\* cache_misses, api_calls or batches_saved.
C18_MetricsMonotone == [][MetricsGrow]_vars

\* C18 witness: the counters are above zero after clear_cache and close()
C18_Witness ==
    /\ closed
    /\ cacheOp.op = "clear"
    /\ metrics.cache_misses > 0
    /\ metrics.api_calls > 0
    /\ metrics.batches_saved > 0

\* --- C19 ----------------------------------------------------------------
\* the ids of a call that missed the cache and whose remote calls all failed
FailedIds(f) ==
    {id \in Missing(f) :
        /\ RemoteCallsFor(f, id) # {}
        /\ \A c \in RemoteCallsFor(f, id) :
              f.batches[c[1]].items[c[2]].pc = "done" /\ f.batches[c[1]].items[c[2]].out # "ok"}

C19_MissesAgain(f1, f2) ==
    \A id \in FailedIds(f1) \cap IdSet(f2) :
        (f1.pc = "done" /\ f2.pc # "idle") =>
            /\ id \notin f2.cachedAt
            /\ CacheKey(f2.kind, id) \notin DOMAIN f2.cached_results

\* C19 as stated: an id that missed the cache and whose remote call failed
\* gets no cache entry, so the next request for it is a cache miss again and
\* is not served an empty value from the cache.
C19_AsStated == C19_MissesAgain(fetch[1], fetch[2])

\* the same for get_users_info alone (not the claim)
C19_UsersOnly == fetch[1].kind = "users" => C19_MissesAgain(fetch[1], fetch[2])

\* --- C20 ----------------------------------------------------------------
\* C20 as stated: no client with batch_size < 1 exists, and no fetch is
\* planned with such a batch size.
C20_AsStated ==
    /\ batch_size >= 1
    /\ \A i \in Calls : fetch[i].planned => batch_size >= 1

\* no fetch with misses gets as far as planning with batch_size = 0: range()
\* raises out of the call (not the claim)
C20_ZeroRaises ==
    \A i \in Calls :
        (batch_size = 0 /\ fetch[i].pc # "idle" /\ fetch[i].to_fetch # <<>>) =>
            fetch[i].raised /\ ~fetch[i].planned

\* C9 (SpecPlan), the claim as stated: for every constructor batch_size and
\* every id list, _create_batches returns batches of length <= batch_size,
\* batch_size <= 50, and ceil(len(ids) / batch_size) batches.
C9_BatchSizeBound ==
    plan.done =>
        /\ ~plan.out.raised
        /\ batch_size <= SLACK_MAX_BATCH
        /\ \A b \in 1..Len(plan.out.batches) : Len(plan.out.batches[b]) <= batch_size
        /\ batch_size # 0
        /\ Len(plan.out.batches) = CeilDiv(Len(plan.ids), batch_size)

\* the same for the batch sizes >= 1 (not the claim: a client with a batch
\* size below 1 can be constructed)
C9_PositiveOnly == batch_size >= 1 => C9_BatchSizeBound

\* --- C21 ----------------------------------------------------------------
\* ids without its repeated elements, in the order of their first occurrence
RECURSIVE FirstSeen(_)
FirstSeen(ids) ==
    IF ids = <<>>
    THEN <<>>
    ELSE LET front == FirstSeen(SubSeq(ids, 1, Len(ids) - 1))
             last == ids[Len(ids)]
         IN  IF last \in SeqToSet(front) THEN front ELSE Append(front, last)

\* the ids of seq that are in S, in the order of seq
Restrict(seq, S) == SelectSeq(seq, LAMBDA x : x \in S)

\* batch b of f is the b-th chunk of batch_size consecutive ids of to_fetch
ContiguousChunks(f) ==
    \A b \in 1..Len(f.batches) :
        f.batches[b].ids = SubSeq(f.to_fetch, (b - 1) * batch_size + 1,
                                  Min(b * batch_size, Len(f.to_fetch)))

\* C21 as stated: the deduplicated list of a call is the caller's input in
\* first-seen order, the list that is partitioned holds the ids to fetch in
\* that order, and the batches are its contiguous chunks of batch_size ids.
C21_AsStated ==
    \A i \in Calls :
        fetch[i].pc # "idle" =>
            /\ fetch[i].unique_ids = FirstSeen(fetch[i].input)
            /\ fetch[i].to_fetch = Restrict(FirstSeen(fetch[i].input), SeqToSet(fetch[i].to_fetch))
            /\ fetch[i].planned => ContiguousChunks(fetch[i])

\* the part that the code keeps, for a batch size >= 1: the batches are the
\* contiguous chunks of the list that was partitioned (not the claim)
C21_ChunksOnly ==
    \A i \in Calls : (fetch[i].planned /\ batch_size >= 1) => ContiguousChunks(fetch[i])

\* --- C22 ----------------------------------------------------------------
\* One call with fixed remote responses (the remote raises for G1 and
\* answers for every other id), after an optional write of one cache entry,
\* with the remote calls completing in every order
FixedOutcome(id) == IF id = G1 THEN "error" ELSE "ok"

InitOrder == InitOf({<<"memory", 1>>, <<"memory", 2>>, <<"redis", 2>>})

\* the cache as the call finds it
PresetCache ==
    /\ fetch[1].pc = "idle"
    /\ \E io \in {"ok", "fail"} : SetCached(LifeKey, LifeValue, io)

RemoteFixed(i) ==
    \E b \in 1..Len(fetch[i].batches) :
        \E j \in 1..Len(fetch[i].batches[b].items) :
            /\ CanReturn(i, b, j)
            /\ fetch' = [fetch EXCEPT ![i] =
                  [RemoteReturned(fetch[i], b, j, FixedOutcome(fetch[i].batches[b].items[j].id))
                      EXCEPT !.reordered = @ \/ Overtakes(fetch[i], b, j)]]
            /\ UNCHANGED <<cfgVars, taskVars, retry, storeVars, now, metrics, lookups, cacheOp,
                           lastSet, plan>>

NextOrder ==
    \/ Tick
    \/ PresetCache
    \/ \E kind \in Kinds : StartCall(1, kind, <<G1, G2, G3>>)
    \/ RemoteFixed(1)
    \/ FinishCall(1)

SpecOrder == InitOrder /\ [][NextOrder]_vars

\* what the remote responses give for the ids a call fetches, stated without
\* any reference to the order of completion
OrderFresh(f) ==
    LET got(id) == FetchOne(f.kind, id, FixedOutcome(id))
    IN  [id \in {x \in SeqToSet(f.to_fetch) : f.kind = "members" \/ Truthy(got(x))} |-> got(id)]

OrderResult(f) ==
    DictMerge(FormatResults(f.kind, f.keys, f.cached_results, 1, EmptyDict), OrderFresh(f))

OrderMetrics(f) ==
    LET nb == CeilDiv(Len(f.to_fetch), batch_size)
    IN  [cache_hits |-> f.m0.cache_hits + Cardinality(DOMAIN f.cached_results),
         cache_misses |-> f.m0.cache_misses + Len(f.misses),
         api_calls |-> f.m0.api_calls + nb,
         batches_saved |-> f.m0.batches_saved + Max(0, Len(f.unique_ids) - nb)]

C22_Returned ==
    \A i \in Calls :
        (fetch[i].pc = "done" /\ fetch[i].planned) =>
            /\ fetch[i].result = OrderResult(fetch[i])
            /\ fetch[i].m1 = OrderMetrics(fetch[i])
            /\ metrics = OrderMetrics(fetch[i])

C22_Written ==
    \A i \in Calls :
        (fetch[i].pc = "gathering" /\ fetch'[i].pc = "done") =>
            LET entries == CacheEntries(fetch[i].kind, OrderFresh(fetch[i]))
            IN  IF UsesRedis
                THEN /\ UNCHANGED <<memory_cache, cache_timestamps>>
                     /\ redis_store' =
                           IF fetch'[i].write_raised
                           THEN redis_store
                           ELSE DictMerge(redis_store,
                                          [k \in DOMAIN entries |->
                                              [text |-> JsonDumps(entries[k]), exp |-> now + cache_ttl]])
                ELSE /\ memory_cache' = DictMerge(memory_cache, entries)
                     /\ cache_timestamps' = DictMerge(cache_timestamps, [k \in DOMAIN entries |-> now])
                     /\ UNCHANGED redis_store

\* C22 (SpecOrder): for a fixed input, cache and remote responses, the map a
\* fetch returns, the metric increments and the cache entries it writes are
\* those the responses determine, whatever the order in which the batches
\* and the calls inside a batch complete.
C22_OrderIndependent == []C22_Returned /\ [][C22_Written]_vars

\* a call with a cache hit and two batches has returned after a remote call
\* completed before an earlier one
C22_Witness ==
    /\ fetch[1].pc = "done"
    /\ fetch[1].reordered
    /\ Len(fetch[1].batches) >= 2
    /\ fetch[1].cached_results # EmptyDict
    /\ fetch[1].result = OrderResult(fetch[1])

\* --- C23 ----------------------------------------------------------------
C23_State ==
    /\ retry.calls <= max_retries + 1
    /\ \A k \in 1..Len(retry.sleeps) : retry.sleeps[k] = retry_delay * 2^(k - 1)
    /\ retry.pc \in {"sleeping", "returned", "raised"} =>
          retry.calls = Len(retry.sleeps) + (IF retry.pc = "sleeping" THEN 0 ELSE 1)
    /\ (retry.pc = "raised" /\ retry.error = "rate_limited") =>
          /\ retry.calls = max_retries + 1
          /\ Len(retry.sleeps) = max_retries
    /\ (retry.pc = "sleeping") => retry.error = "rate_limited" /\ retry.calls <= max_retries

\* once the call has returned or raised, nothing more is attempted
C23_Final == retry.pc \in {"returned", "raised"} => retry' = retry

\* C23 (SpecRetry): an api_call that keeps failing with the rate-limit error
\* is invoked exactly max_retries + 1 times, the sleep before the k-th retry
\* (k = 0 .. max_retries - 1) is retry_delay * 2^k, and then the error
\* propagates; an attempt that succeeds ends the call with no further attempt.
C23_BoundedBackoff == []C23_State /\ [][C23_Final]_vars

\* three retries with delays 2, 4, 8, and the fourth failure propagated
C23_Witness ==
    /\ max_retries = 3
    /\ retry_delay = 2
    /\ retry.pc = "raised"
    /\ retry.error = "rate_limited"
    /\ retry.calls = 4
    /\ retry.sleeps = <<2, 4, 8>>

\* a success after two rate-limited attempts is returned at the third call
C23_WitnessReturned ==
    /\ retry.pc = "returned"
    /\ retry.calls = 3
    /\ Len(retry.sleeps) = 2

\* --- C24 ----------------------------------------------------------------
\* the counters after the call against the counters before it
C24_Effect(f) ==
    LET issued == Len(f.batches)
        unique_requested == Cardinality(IdSet(f))
    IN  /\ f.m1.api_calls = f.m0.api_calls + issued
        /\ f.m1.batches_saved = f.m0.batches_saved + Max(0, unique_requested - issued)

\* C24 as stated: every fetch with at least one cache miss adds the number of
\* batches it issued to api_calls and max(0, unique_requested - issued) to
\* batches_saved, whether its remote calls succeeded or failed.
C24_AsStated ==
    \A i \in Calls :
        (fetch[i].pc = "done" /\ fetch[i].misses # <<>>) => C24_Effect(fetch[i])

\* the same for the clients whose batch size is not 0 (not the claim: a
\* client with batch size 0 can be constructed)
C24_NonZeroOnly == batch_size # 0 => C24_AsStated

\* --- C25 ----------------------------------------------------------------
\* the hits and the misses of the lookup of call f split its keys
C25_Partition(f) ==
    /\ (DOMAIN f.cached_results) \cap SeqToSet(f.misses) = {}
    /\ (DOMAIN f.cached_results) \cup SeqToSet(f.misses) = SeqToSet(f.keys)

\* C25 as stated: for every _get_cached_batch(keys) of a fetch, on either
\* backend and also when the networked read fails part-way, the keys of the
\* hits and the misses are disjoint and together are the requested keys.
C25_AsStated == \A i \in Calls : fetch[i].pc # "idle" => C25_Partition(fetch[i])

\* the same for the lookups whose read does not raise (not the claim)
C25_NoReadFailureOnly ==
    \A i \in Calls : (fetch[i].pc # "idle" /\ ~fetch[i].read_raised) => C25_Partition(fetch[i])

\* --- C26 ----------------------------------------------------------------
\* the entry under key k is the same before and after the step
SameEntry(k) ==
    /\ (k \in DOMAIN memory_cache) = (k \in DOMAIN memory_cache')
    /\ (k \in DOMAIN cache_timestamps) = (k \in DOMAIN cache_timestamps')
    /\ k \in DOMAIN memory_cache => memory_cache'[k] = memory_cache[k]
    /\ k \in DOMAIN cache_timestamps => cache_timestamps'[k] = cache_timestamps[k]

C26_Effect ==
    IF cache_type = "memory"
    THEN /\ \A k \in (DOMAIN memory_cache) \cup (DOMAIN cache_timestamps) :
               IF k \in DOMAIN cache_timestamps /\ now - cache_timestamps[k] > cache_ttl
               THEN k \notin DOMAIN memory_cache' /\ k \notin DOMAIN cache_timestamps'
               ELSE SameEntry(k)
         /\ DOMAIN memory_cache' \subseteq DOMAIN memory_cache
         /\ DOMAIN cache_timestamps' \subseteq DOMAIN cache_timestamps
         /\ UNCHANGED redis_store
    ELSE UNCHANGED <<memory_cache, cache_timestamps, redis_store>>

\* C26 (SpecCache): a run of _cleanup_expired_entries on the in-process cache
\* removes from memory_cache and cache_timestamps exactly the entries whose
\* age now - timestamp exceeds cache_ttl and leaves every other entry's value
\* and timestamp as they were; on the networked variant it changes nothing.
C26_EvictorRun == [][CleanupExpiredEntries => C26_Effect]_vars

\* of two entries written in-process and not cleared since, the one older
\* than the TTL is gone from both dictionaries and the one whose age equals
\* the TTL is still there with its value and timestamp
C26_Witness ==
    \E k1, k2 \in DOMAIN lastSet :
        /\ now - lastSet[k1].at > cache_ttl
        /\ k1 \notin DOMAIN memory_cache
        /\ k1 \notin DOMAIN cache_timestamps
        /\ now - lastSet[k2].at = cache_ttl
        /\ k2 \in DOMAIN memory_cache
        /\ memory_cache[k2] = lastSet[k2].value
        /\ cache_timestamps[k2] = lastSet[k2].at

\* --- C27 ----------------------------------------------------------------
\* The evictor's loop (lines 120-128) with runs that may raise: a task is
\* "running" while it waits in asyncio.sleep, "logged" when the except
\* clause of line 127 has logged the exception of a run, and "cancelled"
\* when CancelledError has ended the loop
\* (mutant) an exception of a run ends the loop
EvictorRunRaisesAndExits(k) ==
    /\ k \in DOMAIN evictors
    /\ evictors[k] = "running"
    /\ evictors' = [evictors EXCEPT ![k] = "cancelled"]
    /\ cacheOp' = [op |-> "cleanup_error", key |-> <<>>, result |-> None, at |-> now, cleared |-> 0,
                   raised |-> TRUE]
    /\ UNCHANGED <<cfgVars, cleanup_task, closed, retry, storeVars, now, metrics, fetch, lookups,
                   lastSet, plan>>

\* the sleep is over and _cleanup_expired_entries raises an exception that
\* is not a cancellation: line 128 logs it (recorded in cacheOp)
EvictorRunRaises(k) ==
    /\ k \in DOMAIN evictors
    /\ evictors[k] = "running"
    /\ evictors' = [evictors EXCEPT ![k] = "logged"]
    /\ cacheOp' = [op |-> "cleanup_error", key |-> <<>>, result |-> None, at |-> now, cleared |-> 0,
                   raised |-> TRUE]
    /\ UNCHANGED <<cfgVars, cleanup_task, closed, retry, storeVars, now, metrics, fetch, lookups,
                   lastSet, plan>>

\* while True: the loop goes round to the next asyncio.sleep(60)
EvictorLoops(k) ==
    /\ k \in DOMAIN evictors
    /\ evictors[k] = "logged"
    /\ evictors' = [evictors EXCEPT ![k] = "running"]
    /\ UNCHANGED <<cfgVars, cleanup_task, closed, retry, storeVars, now, metrics, fetch, lookups,
                   cacheOp, lastSet, plan>>

NextEvictor ==
    \/ Tick
    \/ \E key \in CacheKeys, value \in CacheValues, io \in {"ok", "fail"} : SetCached(key, value, io)
    \/ \E k \in 1..2 : EvictorRun(k)
    \/ \E k \in 1..2 : EvictorRunRaises(k)
    \/ \E k \in 1..2 : EvictorLoops(k)
    \/ Close

SpecEvictor == InitLife /\ [][NextEvictor]_vars

\* the event loop resumes a task that is ready to run
SpecEvictorFair == SpecEvictor /\ \A k \in 1..2 : WF_vars(EvictorLoops(k))

\* a task's loop ends only in close(), by the cancellation of that task
C27_ExitsOnlyCancelled ==
    \A k \in DOMAIN evictors :
        (evictors[k] # "cancelled" /\ evictors'[k] = "cancelled") =>
            /\ ~closed
            /\ closed'
            /\ cleanup_task = k

\* after a run that raised the task is again in its sleep, from where the
\* next run is made, unless it has been cancelled
C27_GoesOn ==
    \A k \in 1..2 :
        (k \in DOMAIN evictors /\ evictors[k] = "logged") ~>
            (k \in DOMAIN evictors /\ evictors[k] \in {"running", "cancelled"})

\* C27 (SpecEvictorFair): a run of the evictor that raises an exception other
\* than cancellation does not end the loop: the exception is logged and the
\* loop goes on to the next interval and run, again and again, and the loop
\* ends only when the task is cancelled.
C27_LoopResilience == [][C27_ExitsOnlyCancelled]_vars /\ C27_GoesOn

\* a run has raised, and the task is waiting for its next run
C27_Witness ==
    /\ cacheOp.op = "cleanup_error"
    /\ \E k \in DOMAIN evictors : evictors[k] = "running"

\* an entry is evicted by a run that follows a run that raised
C27_WitnessNextRun ==
    /\ cacheOp.op = "cleanup_error"
    /\ \E key \in DOMAIN lastSet :
          /\ lastSet[key].at >= cacheOp.at
          /\ key \notin DOMAIN memory_cache

\* --- C28 ----------------------------------------------------------------
\* One call whose ids may contain the text of a key prefix: the ids
\* "conversation_members:G1" and "user_info:G1" beside "G1"
PM == <<"conversation_members:", "G1">>

PU == <<"user_info:", "G1">>

InitKeys == InitOf({<<"memory", 2>>, <<"redis", 2>>})

\* an entry the cache holds under the key of such an id before the call
PresetKey ==
    /\ fetch[1].pc = "idle"
    /\ \E kind \in Kinds, id \in {PM, PU}, io \in {"ok", "fail"} :
          SetCached(CacheKey(kind, id), Remote(kind, id), io)

NextKeys ==
    \/ PresetKey
    \/ \E kind \in Kinds : StartCall(1, kind, <<G1, PM, PU>>)
    \/ RemoteStep(1)
    \/ FinishCall(1)

SpecKeys == InitKeys /\ [][NextKeys]_vars

C28_RoundTrip(f) ==
    /\ \A j \in 1..Len(f.keys) : StripPrefix(f.kind, f.keys[j]) = f.unique_ids[j]
    /\ SeqToSet(f.to_fetch) \subseteq IdSet(f)
    /\ \A s \in RemoteCalls(f) : f.batches[s[1]].items[s[2]].id \in IdSet(f)
    /\ (f.pc = "done" /\ ~f.raised) => DOMAIN f.result \subseteq IdSet(f)

\* C28 as stated: for every id, also one that contains the text of a key
\* prefix, the id made into a cache key and back is the id again, so the
\* remote calls of a fetch are made for, and its result is keyed by, ids the
\* caller passed.
C28_AsStated == \A i \in Calls : fetch[i].pc # "idle" => C28_RoundTrip(fetch[i])

ContainsPrefix(kind, id) == \E t \in 1..Len(id) : id[t] = Prefix(kind)

\* the same for the calls none of whose ids contains the prefix of the
\* call's kind (not the claim)
C28_PlainIdsOnly ==
    \A i \in Calls :
        (fetch[i].pc # "idle" /\ \A id \in IdSet(fetch[i]) : ~ContainsPrefix(fetch[i].kind, id)) =>
            C28_RoundTrip(fetch[i])

\* --- C29 ----------------------------------------------------------------
\* The in-process cache (chosen at construction, or after the fallback)
\* under single writes, two fetches that run at the same time, evictor runs
\* and clear_cache
StoreConfigs == {<<"memory", TRUE>>, <<"redis", FALSE>>}

InitStores ==
    /\ \E c \in StoreConfigs :
          ConstructedWith(c[1], 2, 1, DEFAULT_MAX_RETRIES, DEFAULT_RETRY_DELAY, c[2])
    /\ InitRest

NextStores ==
    \/ Tick
    \/ SetCached(LifeKey, LifeValue, "ok")
    \/ \E k \in 1..2 : EvictorRun(k)
    \/ ClearCache("ok")
    \/ \E i \in Calls : StartCall(i, "members", <<G1>>)
    \/ \E i \in Calls : RemoteStepOf(i, {"ok"})
    \/ \E i \in Calls : FinishCall(i)

SpecStores == InitStores /\ [][NextStores]_vars

\* C29 (SpecStores): in every reachable state of the in-process cache
\* memory_cache and cache_timestamps have the same key set, whatever the
\* interleaving of _set_cached, _set_cached_batch, evictor runs, clear_cache
\* and concurrent fetches.
C29_SameKeys == DOMAIN memory_cache = DOMAIN cache_timestamps

\* one fetch has written its entries while another is still waiting for its
\* remote calls, and an entry written earlier has been evicted
C29_Witness ==
    /\ fetch[1].pc = "done"
    /\ fetch[2].pc = "gathering"
    /\ DOMAIN memory_cache # {}
    /\ DOMAIN memory_cache = DOMAIN cache_timestamps
    /\ \E k \in DOMAIN lastSet : k \notin DOMAIN memory_cache

\* --- C30 ----------------------------------------------------------------
\* The scheduling the fetches rely on, as conditions on a behaviour: while
\* remote calls of call i are in flight, remote calls keep completing (every
\* remote call eventually returns or raises), and a call whose gather() is
\* over is resumed by the event loop
DoneItems(f) == Cardinality({s \in ItemSlots(f) : f.batches[s[1]].items[s[2]].pc = "done"})

RemotePending(i) ==
    /\ fetch[i].pc = "gathering"
    /\ \E s \in ItemSlots(fetch[i]) : fetch[i].batches[s[1]].items[s[2]].pc = "inflight"

GatherOver(i) == fetch[i].pc = "gathering" /\ BatchesDone(fetch[i].batches)

RemoteCallsReturn(i) ==
    \/ []<>(~RemotePending(i))
    \/ []<><<DoneItems(fetch'[i]) > DoneItems(fetch[i])>>_vars

GatherResumes(i) ==
    \/ []<>(~GatherOver(i))
    \/ []<><<fetch[i].pc = "gathering" /\ fetch'[i].pc = "done">>_vars

SpecOneFair == SpecOne /\ RemoteCallsReturn(1) /\ GatherResumes(1)

SpecConcFair == SpecConc /\ RemoteCallsReturn(1) /\ GatherResumes(1)

\* the permits of the semaphores the call created are all back
PermitsBack(f) ==
    f.planned =>
        /\ f.outer = OUTER_LIMIT
        /\ \A b \in 1..Len(f.batches) : f.batches[b].inner = InnerLimit(f.kind)

C30_NoLeak == \A i \in Calls : fetch[i].pc = "done" => PermitsBack(fetch[i])

\* a fetch ends only by returning
C30_ReturnsOnly == \A i \in Calls : fetch[i].pc = "done" => ~fetch[i].raised

\* a fetch that has not ended has a remote call in flight or a gather() that
\* is over: it is never left waiting for a permit nobody will release
C30_Progress == \A i \in Calls : fetch[i].pc = "gathering" => RemotePending(i) \/ GatherOver(i)

\* C30 as stated, as a property of states: a fetch ends only by returning,
\* with every outer and inner permit released, also for the units that
\* failed, and until then it can go on whenever a remote call returns or
\* raises, whatever the number of batches and items.
C30_AsStated == C30_ReturnsOnly /\ C30_NoLeak /\ C30_Progress

\* the same without the return: a fetch ends, by a return or by the
\* exception of _create_batches, with its permits released (not the claim)
C30_EndsWithoutLeak == C30_NoLeak /\ C30_Progress

\* every fetch of a client whose batch size is not 0 ends by returning (not
\* the claim)
C30_NonZeroOnly == batch_size # 0 => C30_AsStated

C30_Returns == \A i \in Calls : (fetch[i].pc # "idle") ~> (fetch[i].pc = "done" /\ ~fetch[i].raised)

C30_Ends == \A i \in Calls : (fetch[i].pc # "idle") ~> (fetch[i].pc = "done")

\* under the scheduling conditions every fetch does end (SpecOneFair,
\* SpecConcFair), and returns when the batch size is not 0
C30_EventuallyEnds == C30_Ends

C30_EventuallyReturns == (batch_size = 0) \/ C30_Returns

====
